---- MODULE Spec2Model ----
(***************************************************************************)
(* Round state machine and scoring engine of the quiz application          *)
(* (src/app/app.py): the shared RootState, the submit and facilitator      *)
(* request handlers, the answer evaluator, the leaderboard and the         *)
(* snapshot codec.                                                         *)
(*                                                                         *)
(* Conventions.                                                            *)
(*  - Optional values: None is <<>> and a present value v is <<v>>.        *)
(*  - Scores are floats that only ever move by 1.0, 2.0 and 0.5; they are  *)
(*    kept here as integers counting half points (2 is 1.0, -1 is -0.5),   *)
(*    which is exact for such sums.                                        *)
(*  - A Python dict is a set of entries [k |-> key, v |-> value]; DictSet  *)
(*    models d[k] = v.                                                     *)
(*  - A string that the code inspects (answer text, patterns) is a         *)
(*    sequence of one-character strings.                                   *)
(*  - In Spec each handler runs as one step, snapshot included.  In        *)
(*    SpecThreads two request threads run their handlers stretch by        *)
(*    stretch (lock, body, the steps of save_state, release, render),      *)
(*    save_state may raise and the process may crash and restart.          *)
(***************************************************************************)
EXTENDS Integers, Sequences, FiniteSets

VARIABLES
    ADMIN_TOKEN,   \* os.environ.get("ADMIN_TOKEN"): None or the secret
    questions,     \* RootState.questions, as the sequence of question ids
    qidx,          \* RoundState.qidx
    revealed,      \* RoundState.revealed
    neg_mark,      \* RoundState.neg_mark
    timer_secs,    \* RoundState.timer_secs
    deadline,      \* RoundState.deadline (Optional)
    submissions,   \* RoundState.submissions: team id -> dict slot -> Answer
    scores,        \* RoundState.scores: team id -> half points
    disk,          \* the content of STATE_FILE: the last snapshot written
    last,          \* the request handled last
    resp,          \* the HTTP status answered to it
    nreq,          \* the number of requests handled so far
    LOCK,          \* LOCK: None, or the thread that holds it
    pc,            \* where each request thread stands in its handler
    frame,         \* the locals of each request thread
    tmp,           \* the content of STATE_FILE + ".tmp": None when absent
    write_failed   \* a save_state raised since the last one that returned

state == <<questions, qidx, revealed, neg_mark, timer_secs, deadline,
           submissions, scores>>
threads == <<LOCK, pc, frame, tmp, write_failed>>
vars == <<ADMIN_TOKEN, questions, qidx, revealed, neg_mark, timer_secs,
          deadline, submissions, scores, disk, last, resp, nreq, threads>>

---------------------------------------------------------------------------
(* Bounds of the model. *)

\* Length of the longest question bank loaded at start-up.
MaxQuestions == 2
\* Number of requests the server handles in a run.
MaxRequests == 3

None == <<>>
Some(v) == <<v>>
IsNone(o) == o = <<>>
Val(o) == o[1]

Min(a, b) == IF a < b THEN a ELSE b
Max(a, b) == IF a > b THEN a ELSE b

---------------------------------------------------------------------------
(* The roster and the question bank. *)

\* The names load_state creates teams from, in insertion order (the model
\* keeps the first teams of the six-name roster).
TeamNames == <<"Alpha", "Bravo">>

\* name.lower()
TeamId(name) ==
    CASE name = "Alpha" -> "alpha"
      [] name = "Bravo" -> "bravo"
      [] name = "Charlie" -> "charlie"
      [] OTHER -> name

\* The keys of RootState.teams.
TeamIds == {TeamId(TeamNames[i]) : i \in 1..Len(TeamNames)}

\* Team.name of the team with this id.
TeamName(tid) == CHOOSE n \in {TeamNames[i] : i \in 1..Len(TeamNames)} : TeamId(n) = tid

\* A team id no team has.
UnknownTeam == "zulu"

\* The questions questions.json may hold: one of each kind.
QuestionIds == {"q1", "q2", "q3"}

\* Question.kind
QKind(id) ==
    CASE id = "q1" -> "single"
      [] id = "q2" -> "multi"
      [] id = "q3" -> "short"

\* Question.choices
QChoices(id) ==
    CASE id = "q1" -> <<"x", "y">>
      [] id = "q2" -> <<"x", "y">>
      [] id = "q3" -> <<>>

\* Question.answer: an index (single), a list of indices (multi), a list of
\* patterns (short). The patterns of the model are literals.
QAnswer(id) ==
    CASE id = "q1" -> 1
      [] id = "q2" -> <<0, 1>>
      [] id = "q3" -> << <<"a">> >>

Range(s) == {s[i] : i \in 1..Len(s)}

IsInjective(s) == \A i, j \in 1..Len(s) : s[i] = s[j] => i = j

\* The place of a question in questions.json.
FileOrder(id) ==
    CASE id = "q1" -> 1
      [] id = "q2" -> 2
      [] id = "q3" -> 3

\* The banks load_questions may return: at most MaxQuestions of the questions,
\* in the order of the file.
Banks ==
    UNION {{s \in [1..n -> QuestionIds] :
                \A i, j \in 1..n : i < j => FileOrder(s[i]) < FileOrder(s[j])} :
           n \in 0..MaxQuestions}

\* Every reordering of s.
Shuffles(s) ==
    {p \in [1..Len(s) -> Range(s)] : Range(p) = Range(s) /\ IsInjective(p)}

---------------------------------------------------------------------------
(* Python dicts. *)

DictKeys(d) == {e.k : e \in d}

DictHas(d, k) == \E e \in d : e.k = k

\* d.get(k): None when k is missing.
DictGet(d, k) ==
    IF DictHas(d, k) THEN Some((CHOOSE e \in d : e.k = k).v) ELSE None

\* A d[k] = v that keeps the entry k had.
DictSetKeepingOld(d, k, v) == d \cup {[k |-> k, v |-> v]}

\* d[k] = v
DictSet(d, k, v) == {e \in d : e.k # k} \cup {[k |-> k, v |-> v]}

---------------------------------------------------------------------------
(* Strings and conversions. *)

\* int(s) succeeds on these strings and raises ValueError on any other.
IsIntText(s) == s \in {"0", "1", "2"}

\* int(s)
ParseInt(s) ==
    CASE s = "0" -> 0
      [] s = "1" -> 1
      [] s = "2" -> 2

\* str(i), as to_json writes a slot index.
IntToStr(i) ==
    CASE i = 0 -> "0"
      [] i = 1 -> "1"
      [] i = 2 -> "2"
      [] i = 3 -> "3"
      [] OTHER -> "-1"

\* int(s), as from_json reads a slot index.
StrToInt(s) ==
    CASE s = "0" -> 0
      [] s = "1" -> 1
      [] s = "2" -> 2
      [] s = "3" -> 3
      [] OTHER -> -1

IsSpace(c) == c = " "

RECURSIVE LStrip(_)
LStrip(s) == IF s # <<>> /\ IsSpace(Head(s)) THEN LStrip(Tail(s)) ELSE s

RECURSIVE RStrip(_)
RStrip(s) ==
    IF s # <<>> /\ IsSpace(s[Len(s)]) THEN RStrip(SubSeq(s, 1, Len(s) - 1)) ELSE s

\* str.strip()
Strip(s) == RStrip(LStrip(s))

\* Case folding of one character, as re.IGNORECASE compares them.
LowerChar(c) ==
    CASE c = "A" -> "a"
      [] c = "B" -> "b"
      [] OTHER -> c

Lower(s) == [i \in 1..Len(s) |-> LowerChar(s[i])]

\* re.fullmatch(rx, text, flags=re.IGNORECASE) for a literal pattern rx.
FullMatch(rx, text) == Lower(rx) = Lower(text)

---------------------------------------------------------------------------
(* Answers and the evaluator. *)

\* An Answer() whose flag starts out as False instead of None.
NewAnswerStamped == [choice |-> None, choices |-> None, text |-> None, correct |-> Some(FALSE)]

\* Answer()
NewAnswer == [choice |-> None, choices |-> None, text |-> None, correct |-> None]

\* x or []  /  x or ""
OrEmpty(o) == IF IsNone(o) THEN <<>> ELSE Val(o)

\* current_question(st): None or the id of the question at qidx.
current_question(qs, qi) ==
    IF Len(qs) = 0 THEN None
    ELSE IF qi < 0 \/ qi >= Len(qs) THEN None
    ELSE Some(qs[qi + 1])

\* eval_answer(q, ans)
eval_answer(q, ans) ==
    CASE QKind(q) = "single" ->
            ~IsNone(ans.choice) /\ Val(ans.choice) = QAnswer(q)
      [] QKind(q) = "multi" ->
            Range(OrEmpty(ans.choices)) = Range(QAnswer(q))
      [] QKind(q) = "short" ->
            \E i \in 1..Len(QAnswer(q)) :
                FullMatch(QAnswer(q)[i], Strip(OrEmpty(ans.text)))
      [] OTHER -> FALSE

\* An attempt check that takes every stored answer for an attempt.
AttemptedAlways(q, ans) == TRUE

\* The condition of line 298 besides neg_mark: the team attempted the question.
Attempted(q, ans) ==
    \/ QKind(q) = "single" /\ ~IsNone(ans.choice)
    \/ QKind(q) = "multi" /\ OrEmpty(ans.choices) # <<>>
    \/ QKind(q) = "short" /\ OrEmpty(ans.text) # <<>>

\* Half points added for a correct single answer (1.0).
RewardSingle == 2
\* Half points added for a correct answer of any other kind (2.0).
RewardOther == 4
\* Half points taken for an attempted incorrect answer under neg_mark (0.5).
Penalty == 1

\* A score change that rewards every kind alike.
RevealDeltaFlat(q, ans, neg) ==
    IF eval_answer(q, ans) THEN RewardSingle
    ELSE IF neg /\ Attempted(q, ans) THEN 0 - Penalty ELSE 0

\* The score change reveal applies for one stored answer.
RevealDelta(q, ans, neg) ==
    IF eval_answer(q, ans)
    THEN (IF QKind(q) = "single" THEN RewardSingle ELSE RewardOther)
    ELSE IF neg /\ Attempted(q, ans) THEN 0 - Penalty ELSE 0

---------------------------------------------------------------------------
(* Request forms. *)

\* The forms a team may post: no field, a choice, a list of choices, a text.
\* request.form.get(name) is None for a missing field, getlist(name) is [].
Forms ==
    {[choice |-> c, choices |-> <<>>, text |-> None] : c \in {None, Some("0"), Some("1"), Some("x")}}
    \cup {[choice |-> None, choices |-> l, text |-> None] : l \in {<<"0">>, <<"1", "0">>}}
    \cup {[choice |-> None, choices |-> <<>>, text |-> Some(t)] : t \in {<<" ", "A">>, <<"b">>}}

\* Whether lines 239-246 raise on this form (int() of a non-number).
ParseRaises(q, form) ==
    \/ QKind(q) = "single" /\ ~IsNone(form.choice) /\ ~IsIntText(Val(form.choice))
    \/ QKind(q) = "multi" /\ \E i \in 1..Len(form.choices) : ~IsIntText(form.choices[i])

\* The Answer lines 238-246 build from the form.
ParseAnswer(q, form) ==
    CASE QKind(q) = "single" ->
            [NewAnswer EXCEPT !.choice =
                IF IsNone(form.choice) THEN None ELSE Some(ParseInt(Val(form.choice)))]
      [] QKind(q) = "multi" ->
            [NewAnswer EXCEPT !.choices =
                Some([i \in 1..Len(form.choices) |-> ParseInt(form.choices[i])])]
      [] QKind(q) = "short" ->
            [NewAnswer EXCEPT !.text = Some(Strip(OrEmpty(form.text)))]
      [] OTHER -> NewAnswer

---------------------------------------------------------------------------
(* The snapshot codec. *)

\* The RootState the variables make up.
RootState ==
    [teams |-> [t \in TeamIds |-> [id |-> t, name |-> TeamName(t)]],
     questions |-> questions,
     rnd |-> [qidx |-> qidx, revealed |-> revealed, neg_mark |-> neg_mark,
              timer_secs |-> timer_secs, deadline |-> deadline,
              submissions |-> submissions, scores |-> scores]]

\* A serialization of the submissions that leaves the correctness flag out.
SlotKeysToStrNoFlag(byq) ==
    {[k |-> IntToStr(e.k), v |-> [e.v EXCEPT !.correct = None]] : e \in byq}

\* The keys of a submissions dict as to_json writes them: str(i).
SlotKeysToStr(byq) == {[k |-> IntToStr(e.k), v |-> e.v] : e \in byq}

\* The keys of a submissions dict as from_json reads them: int(i).
SlotKeysToInt(byq) == {[k |-> StrToInt(e.k), v |-> e.v] : e \in byq}

\* RootState.to_json
to_json(st) ==
    [teams |-> st.teams,
     questions |-> [i \in 1..Len(st.questions) |->
                       [id |-> st.questions[i], kind |-> QKind(st.questions[i])]],
     rnd |-> [qidx |-> st.rnd.qidx, revealed |-> st.rnd.revealed,
              neg_mark |-> st.rnd.neg_mark, timer_secs |-> st.rnd.timer_secs,
              deadline |-> st.rnd.deadline,
              submissions |-> [t \in DOMAIN st.rnd.submissions |->
                                  SlotKeysToStr(st.rnd.submissions[t])],
              scores |-> st.rnd.scores]]

\* RootState.from_json
from_json(d) ==
    [teams |-> d.teams,
     questions |-> [i \in 1..Len(d.questions) |-> d.questions[i].id],
     rnd |-> [qidx |-> d.rnd.qidx, revealed |-> d.rnd.revealed,
              neg_mark |-> d.rnd.neg_mark, timer_secs |-> d.rnd.timer_secs,
              deadline |-> d.rnd.deadline,
              submissions |-> [t \in DOMAIN d.rnd.submissions |->
                                  SlotKeysToInt(d.rnd.submissions[t])],
              scores |-> d.rnd.scores]]

\* save_state(st): the file is replaced by the new snapshot.
save_state == disk' = to_json(RootState')

---------------------------------------------------------------------------
(* The leaderboard. *)

\* The place of a team name in the order Python compares strings in.
NameRank(name) ==
    CASE name = "Alpha" -> 1
      [] name = "Bravo" -> 2
      [] name = "Charlie" -> 3
      [] OTHER -> 4

\* The row of one team: lines 163-171 (round(x, 2) leaves half points as they are).
BoardRow(tid, subs, sc) ==
    [team |-> tid,
     points |-> sc[tid],
     answered |-> Cardinality(DictKeys(subs[tid])),
     correct |-> Cardinality({e \in subs[tid] : e.v.correct = Some(TRUE)})]

\* A sort key of the points alone.
KeyLessPointsOnly(a, b) == 0 - a.points < 0 - b.points

\* The sort key of line 172 orders row a before row b.
KeyLess(a, b) ==
    \/ 0 - a.points < 0 - b.points
    \/ a.points = b.points /\ NameRank(TeamName(a.team)) < NameRank(TeamName(b.team))

\* list.sort is stable: a row goes behind the rows whose key is not greater.
RECURSIVE SortedInsert(_, _)
SortedInsert(row, rows) ==
    IF rows = <<>> THEN <<row>>
    ELSE IF KeyLess(row, Head(rows)) THEN <<row>> \o rows
    ELSE <<Head(rows)>> \o SortedInsert(row, Tail(rows))

RECURSIVE StableSort(_)
StableSort(rows) ==
    IF rows = <<>> THEN <<>>
    ELSE SortedInsert(rows[Len(rows)], StableSort(SubSeq(rows, 1, Len(rows) - 1)))

\* board(st), with the teams dict iterated in the given order.
board(order, subs, sc) ==
    StableSort([i \in 1..Len(order) |-> BoardRow(order[i], subs, sc)])

\* st.teams in insertion order.
TeamOrder == [i \in 1..Len(TeamNames) |-> TeamId(TeamNames[i])]

---------------------------------------------------------------------------
(* Start-up. *)

\* The request threads: the server runs every request on a thread of its
\* own.  Two of them run a request each, in any interleaving.
Threads == {"t1", "t2"}

\* The locals of a handler that later steps of it read: the team of a
\* submit and the question it read (line 233), how the with-block is left,
\* and the view the handler renders after it.
NoFrame == [tid |-> "", q |-> None, exit |-> "", view |-> ""]

\* RoundState.timer_secs as constructed.
DefaultTimerSecs == 60

\* The secret ADMIN_TOKEN may be set to.
Secret == "s3cret"

\* main / load_state with no STATE_FILE: the roster, empty submissions, zero
\* scores, the loaded questions and RoundState's defaults, then save_state.
Init ==
    /\ ADMIN_TOKEN \in {None, Some(Secret)}
    /\ questions \in Banks
    /\ qidx = 0
    /\ revealed = FALSE
    /\ neg_mark = FALSE
    /\ timer_secs = DefaultTimerSecs
    /\ deadline = None
    /\ submissions = [t \in TeamIds |-> {}]
    /\ scores = [t \in TeamIds |-> 0]
    /\ disk = to_json(RootState)
    /\ last = [op |-> "start", team |-> "", ans |-> None, had |-> None]
    /\ resp = 0
    /\ nreq = 0
    /\ LOCK = None
    /\ pc = [th \in Threads |-> "idle"]
    /\ frame = [th \in Threads |-> NoFrame]
    /\ tmp = None
    /\ write_failed = FALSE

---------------------------------------------------------------------------
(* POST /t/<team_id>/submit *)

\* A submit path that does not look at revealed.
LateSubmissionIgnored == FALSE

\* Line 236: the round is revealed, the submission comes too late.
LateSubmission == revealed

\* submit_answer(team_id) with the posted form.
submit_answer(tid, form) ==
    LET q == current_question(questions, qidx) IN
    /\ last' = [op |-> "submit", team |-> tid,
                ans |-> IF tid \in TeamIds /\ ~IsNone(q) /\ ~LateSubmission
                           /\ ~ParseRaises(Val(q), form)
                        THEN Some(ParseAnswer(Val(q), form)) ELSE None,
                had |-> IF tid \in TeamIds THEN DictGet(submissions[tid], qidx) ELSE None]
    /\ IF tid \notin TeamIds THEN
            /\ resp' = 404
            /\ UNCHANGED <<state, disk>>
       ELSE IF IsNone(q) THEN
            /\ resp' = 400
            /\ UNCHANGED <<state, disk>>
       ELSE IF LateSubmission THEN
            /\ resp' = 302
            /\ UNCHANGED <<state, disk>>
       ELSE IF ParseRaises(Val(q), form) THEN
            /\ resp' = 500
            /\ UNCHANGED <<state, disk>>
       ELSE
            /\ submissions' = [submissions EXCEPT
                    ![tid] = DictSet(@, qidx, ParseAnswer(Val(q), form))]
            /\ UNCHANGED <<questions, qidx, revealed, neg_mark, timer_secs,
                           deadline, scores>>
            /\ save_state
            /\ resp' = 302
    /\ UNCHANGED ADMIN_TOKEN

SubmitAnswer ==
    /\ nreq < MaxRequests
    /\ \E tid \in TeamIds \cup {UnknownTeam}, form \in Forms : submit_answer(tid, form)
    /\ nreq' = nreq + 1
    /\ UNCHANGED threads

---------------------------------------------------------------------------
(* POST /facilitator *)

\* The addresses a request may come from.
RemoteAddrs == {"127.0.0.1", "10.0.0.7"}

\* The admin token a request may present (form field or header; "" is none).
Tokens == {"", Secret, "wrong"}

\* The values of the timer form field: missing, a number, not a number.
TimerFields == {None, Some("30"), Some("x")}

\* The instants time.time() returns.
Times == {1000}

\* int() of a timer field.
TimerValue(s) == CASE s = "30" -> 30 [] OTHER -> 0

IsTimerText(s) == s = "30"

\* is_local_request()
is_local_request(ra) == ra \in {"127.0.0.1", "::1", "localhost"}

\* allowed_reset()
allowed_reset(token, ra) ==
    IF ~IsNone(ADMIN_TOKEN) /\ Val(ADMIN_TOKEN) # ""
    THEN token # "" /\ token = Val(ADMIN_TOKEN)
    ELSE is_local_request(ra)

\* A neg_mark that follows the neg field of each request.
StickyNegFollowsField(neg) == neg

\* Line 258: the neg field can set neg_mark and never clears it.
StickyNeg(neg) == neg \/ neg_mark

FacilitatorRequest(action) == [op |-> action, team |-> "", ans |-> None, had |-> None]

\* A clearing loop that clears nothing.
ClearedNothing(subs) == subs

\* for tid in st.teams: st.rnd.submissions[tid] = {}
ClearedSubmissions(subs) == [t \in DOMAIN subs |-> IF t \in TeamIds THEN {} ELSE subs[t]]

\* action == "start_timer"
start_timer_in_memory(neg, timer, now) ==
    /\ neg_mark' = StickyNeg(neg)
    /\ timer_secs' = IF IsNone(timer) THEN timer_secs
                     ELSE IF IsTimerText(Val(timer)) THEN TimerValue(Val(timer))
                     ELSE timer_secs
    /\ deadline' = Some(now + timer_secs')
    /\ UNCHANGED <<questions, qidx, revealed, submissions, scores, ADMIN_TOKEN>>
    /\ last' = FacilitatorRequest("start_timer")
    /\ resp' = 200

\* The whole request: the branch, then line 314, save_state(st).
start_timer(neg, timer, now) == start_timer_in_memory(neg, timer, now) /\ save_state

\* action == "shuffle"; order is what random.shuffle leaves.
shuffle_in_memory(neg, order) ==
    /\ neg_mark' = StickyNeg(neg)
    /\ questions' = order
    /\ qidx' = 0
    /\ revealed' = FALSE
    /\ deadline' = None
    /\ submissions' = ClearedSubmissions(submissions)
    /\ UNCHANGED <<timer_secs, scores, ADMIN_TOKEN>>
    /\ last' = FacilitatorRequest("shuffle")
    /\ resp' = 200

\* The whole request: the branch, then line 314, save_state(st).
shuffle(neg, order) == shuffle_in_memory(neg, order) /\ save_state

\* Line 273: max(0, qidx - 1)
Retreat(qi) == Max(0, qi - 1)

\* An advance that does not stop at the last question.
AdvanceUnclamped(qi, n) == qi + 1

\* Line 277: min(len(questions) - 1, qidx + 1)
Advance(qi, n) == Min(n - 1, qi + 1)

\* action == "prev"
prev_in_memory(neg) ==
    /\ neg_mark' = StickyNeg(neg)
    /\ qidx' = Retreat(qidx)
    /\ revealed' = FALSE
    /\ deadline' = None
    /\ UNCHANGED <<questions, timer_secs, submissions, scores, ADMIN_TOKEN>>
    /\ last' = FacilitatorRequest("prev")
    /\ resp' = 200

\* The whole request: the branch, then line 314, save_state(st).
prev(neg) == prev_in_memory(neg) /\ save_state

\* action == "next"
next_in_memory(neg) ==
    /\ neg_mark' = StickyNeg(neg)
    /\ qidx' = Advance(qidx, Len(questions))
    /\ revealed' = FALSE
    /\ deadline' = None
    /\ UNCHANGED <<questions, timer_secs, submissions, scores, ADMIN_TOKEN>>
    /\ last' = FacilitatorRequest("next")
    /\ resp' = 200

\* The whole request: the branch, then line 314, save_state(st).
next(neg) == next_in_memory(neg) /\ save_state

\* A stamping loop that stamps the answers of every slot against the current
\* question.
StampedSubmissionsEverySlot(q, slot, byq) ==
    {[e EXCEPT !.v.correct = Some(eval_answer(q, e.v))] : e \in byq}

\* Lines 288-293: the answer a team holds at the slot, stamped.
StampedSubmissions(q, slot, byq) ==
    {IF e.k = slot THEN [e EXCEPT !.v.correct = Some(eval_answer(q, e.v))] ELSE e : e \in byq}

\* Lines 294-299: the score of a team after the reveal of the slot.
RevealedScore(q, slot, byq, score, neg) ==
    IF IsNone(DictGet(byq, slot)) THEN score
    ELSE score + RevealDelta(q, Val(DictGet(byq, slot)), neg)

\* action == "reveal"
reveal_in_memory(neg) ==
    LET q == current_question(questions, qidx) IN
    /\ neg_mark' = StickyNeg(neg)
    /\ IF IsNone(q) THEN
            UNCHANGED <<revealed, deadline, submissions, scores>>
       ELSE
            /\ submissions' = [t \in DOMAIN submissions |->
                    IF t \in TeamIds THEN StampedSubmissions(Val(q), qidx, submissions[t])
                    ELSE submissions[t]]
            /\ scores' = [t \in DOMAIN scores |->
                    IF t \in TeamIds
                    THEN RevealedScore(Val(q), qidx, submissions[t], scores[t], neg_mark')
                    ELSE scores[t]]
            /\ revealed' = TRUE
            /\ deadline' = None
    /\ UNCHANGED <<questions, qidx, timer_secs, ADMIN_TOKEN>>
    /\ last' = FacilitatorRequest("reveal")
    /\ resp' = 200

\* The whole request: the branch, then line 314, save_state(st).
reveal(neg) == reveal_in_memory(neg) /\ save_state

\* A reset_round that forgets to hide the reveal and to drop the deadline.
reset_round_keeping_reveal(neg, token, ra) ==
    /\ neg_mark' = StickyNeg(neg)
    /\ IF ~allowed_reset(token, ra) THEN
            /\ UNCHANGED submissions
            /\ resp' = 403
       ELSE
            /\ submissions' = ClearedSubmissions(submissions)
            /\ resp' = 200
    /\ UNCHANGED <<questions, qidx, revealed, timer_secs, deadline, scores, ADMIN_TOKEN>>
    /\ save_state
    /\ last' = FacilitatorRequest("reset_round")

\* action == "reset_round"
reset_round_in_memory(neg, token, ra) ==
    /\ neg_mark' = StickyNeg(neg)
    /\ IF ~allowed_reset(token, ra) THEN
            /\ UNCHANGED <<revealed, deadline, submissions>>
            /\ resp' = 403
       ELSE
            /\ revealed' = FALSE
            /\ deadline' = None
            /\ submissions' = ClearedSubmissions(submissions)
            /\ resp' = 200
    /\ UNCHANGED <<questions, qidx, timer_secs, scores, ADMIN_TOKEN>>
    /\ last' = FacilitatorRequest("reset_round")

\* The whole request: the branch, then line 314, save_state(st).
reset_round(neg, token, ra) == reset_round_in_memory(neg, token, ra) /\ save_state

\* action == "reset_all"
reset_all_in_memory(neg, token, ra) ==
    /\ neg_mark' = StickyNeg(neg)
    /\ IF ~allowed_reset(token, ra) THEN
            /\ UNCHANGED <<qidx, revealed, deadline, submissions, scores>>
            /\ resp' = 403
       ELSE
            /\ submissions' = ClearedSubmissions(submissions)
            /\ scores' = [t \in DOMAIN scores |-> IF t \in TeamIds THEN 0 ELSE scores[t]]
            /\ qidx' = 0
            /\ revealed' = FALSE
            /\ deadline' = None
            /\ resp' = 200
    /\ UNCHANGED <<questions, timer_secs, ADMIN_TOKEN>>
    /\ last' = FacilitatorRequest("reset_all")

\* The whole request: the branch, then line 314, save_state(st).
reset_all(neg, token, ra) == reset_all_in_memory(neg, token, ra) /\ save_state

\* Any other action value, or none: only line 258 and save_state act.
other_action_in_memory(neg) ==
    /\ neg_mark' = StickyNeg(neg)
    /\ UNCHANGED <<questions, qidx, revealed, timer_secs, deadline, submissions,
                   scores, ADMIN_TOKEN>>
    /\ last' = FacilitatorRequest("other")
    /\ resp' = 200

\* The whole request: the branch, then line 314, save_state(st).
other_action(neg) == other_action_in_memory(neg) /\ save_state

StartTimer ==
    /\ nreq < MaxRequests
    /\ \E neg \in BOOLEAN, timer \in TimerFields, now \in Times : start_timer(neg, timer, now)
    /\ nreq' = nreq + 1
    /\ UNCHANGED threads

Shuffle ==
    /\ nreq < MaxRequests
    /\ \E neg \in BOOLEAN, order \in Shuffles(questions) : shuffle(neg, order)
    /\ nreq' = nreq + 1
    /\ UNCHANGED threads

Prev ==
    /\ nreq < MaxRequests
    /\ \E neg \in BOOLEAN : prev(neg)
    /\ nreq' = nreq + 1
    /\ UNCHANGED threads

NextQuestion ==
    /\ nreq < MaxRequests
    /\ \E neg \in BOOLEAN : next(neg)
    /\ nreq' = nreq + 1
    /\ UNCHANGED threads

Reveal ==
    /\ nreq < MaxRequests
    /\ \E neg \in BOOLEAN : reveal(neg)
    /\ nreq' = nreq + 1
    /\ UNCHANGED threads

ResetRound ==
    /\ nreq < MaxRequests
    /\ \E neg \in BOOLEAN, token \in Tokens, ra \in RemoteAddrs : reset_round(neg, token, ra)
    /\ nreq' = nreq + 1
    /\ UNCHANGED threads

ResetAll ==
    /\ nreq < MaxRequests
    /\ \E neg \in BOOLEAN, token \in Tokens, ra \in RemoteAddrs : reset_all(neg, token, ra)
    /\ nreq' = nreq + 1
    /\ UNCHANGED threads

OtherAction ==
    /\ nreq < MaxRequests
    /\ \E neg \in BOOLEAN : other_action(neg)
    /\ nreq' = nreq + 1
    /\ UNCHANGED threads

---------------------------------------------------------------------------

Next ==
    \/ SubmitAnswer
    \/ StartTimer
    \/ Shuffle
    \/ Prev
    \/ NextQuestion
    \/ Reveal
    \/ ResetRound
    \/ ResetAll
    \/ OtherAction

Spec == Init /\ [][Next]_vars

---------------------------------------------------------------------------
(* The handlers as the request threads run them: every handler body is a
   `with LOCK:` block, the snapshot is written inside it, and the template
   is rendered after it.  A step of a thread is one stretch of its handler;
   a crash of the process may come between any two steps. *)

\* A lock that never refuses.
CanAcquireAlways(l) == TRUE

\* LOCK.acquire(): the lock is free.
CanAcquire(l) == IsNone(l)

\* A with-block that keeps the lock when an exception or a return leaves it.
with_exit_on_end_only(how) == IF how = "end" THEN None ELSE LOCK

\* LOCK.__exit__: the lock is released however the block is left (its last
\* line, a return, abort()'s HTTPException, any other exception).
with_exit(how) == None

\* The labels of a thread inside its with-block.
InBlock == {"locked", "store", "save", "dump", "replace", "leave"}

\* The thread goes to leave the with-block.
Leave(th, how, view) ==
    /\ pc' = [pc EXCEPT ![th] = "leave"]
    /\ frame' = [frame EXCEPT ![th] = [NoFrame EXCEPT !.exit = how, !.view = view]]

\* `with LOCK:` (lines 198, 205, 230, 253).  Threads are named in the order
\* they get the lock.
Acquire ==
    \E th \in Threads :
        /\ pc[th] = "idle"
        /\ th = "t2" => pc["t1"] # "idle"
        /\ CanAcquire(LOCK)
        /\ LOCK' = Some(th)
        /\ pc' = [pc EXCEPT ![th] = "locked"]
        /\ UNCHANGED <<ADMIN_TOKEN, state, disk, last, resp, nreq, frame, tmp,
                       write_failed>>

\* submit_answer, lines 231-237: the team, the question, the revealed check.
SubmitCheck ==
    \E th \in Threads :
        /\ pc[th] = "locked"
        /\ \E tid \in TeamIds \cup {UnknownTeam} :
            LET q == current_question(questions, qidx)
                rejected == [op |-> "submit", team |-> tid, ans |-> None,
                             had |-> IF tid \in TeamIds
                                     THEN DictGet(submissions[tid], qidx) ELSE None]
            IN
            IF tid \notin TeamIds THEN
                /\ Leave(th, "abort", "")
                /\ last' = rejected /\ resp' = 404 /\ nreq' = nreq + 1
            ELSE IF IsNone(q) THEN
                /\ Leave(th, "abort", "")
                /\ last' = rejected /\ resp' = 400 /\ nreq' = nreq + 1
            ELSE IF LateSubmission THEN
                /\ Leave(th, "return", "redirect")
                /\ last' = rejected /\ resp' = 302 /\ nreq' = nreq + 1
            ELSE
                /\ pc' = [pc EXCEPT ![th] = "store"]
                /\ frame' = [frame EXCEPT ![th] =
                        [NoFrame EXCEPT !.tid = tid, !.q = q]]
                /\ UNCHANGED <<last, resp, nreq>>
        /\ UNCHANGED <<ADMIN_TOKEN, state, disk, LOCK, tmp, write_failed>>

\* submit_answer, lines 238-247: the answer is built from the form and
\* stored.
SubmitStore ==
    \E th \in Threads, form \in Forms :
        /\ pc[th] = "store"
        /\ LET tid == frame[th].tid
               q == Val(frame[th].q)
           IN
           /\ last' = [op |-> "submit", team |-> tid,
                       ans |-> IF ParseRaises(q, form) THEN None
                               ELSE Some(ParseAnswer(q, form)),
                       had |-> DictGet(submissions[tid], qidx)]
           /\ nreq' = nreq + 1
           /\ IF ParseRaises(q, form) THEN
                   /\ Leave(th, "error", "")
                   /\ resp' = 500
                   /\ UNCHANGED state
              ELSE
                   /\ submissions' = [submissions EXCEPT
                           ![tid] = DictSet(@, qidx, ParseAnswer(q, form))]
                   /\ UNCHANGED <<questions, qidx, revealed, neg_mark, timer_secs,
                                  deadline, scores>>
                   /\ pc' = [pc EXCEPT ![th] = "save"]
                   /\ frame' = [frame EXCEPT ![th] = [NoFrame EXCEPT !.view = "redirect"]]
                   /\ resp' = 302
        /\ UNCHANGED <<ADMIN_TOKEN, disk, LOCK, tmp, write_failed>>

\* facilitator, POST, lines 254-313: line 258 and the branch of the action.
FacilitatorBody ==
    \E th \in Threads :
        /\ pc[th] = "locked"
        /\ \/ \E neg \in BOOLEAN, timer \in TimerFields, now \in Times :
                start_timer_in_memory(neg, timer, now)
           \/ \E neg \in BOOLEAN, order \in Shuffles(questions) :
                shuffle_in_memory(neg, order)
           \/ \E neg \in BOOLEAN : prev_in_memory(neg)
           \/ \E neg \in BOOLEAN : next_in_memory(neg)
           \/ \E neg \in BOOLEAN : reveal_in_memory(neg)
           \/ \E neg \in BOOLEAN, token \in Tokens, ra \in RemoteAddrs :
                reset_round_in_memory(neg, token, ra)
           \/ \E neg \in BOOLEAN, token \in Tokens, ra \in RemoteAddrs :
                reset_all_in_memory(neg, token, ra)
           \/ \E neg \in BOOLEAN : other_action_in_memory(neg)
        /\ nreq' = nreq + 1
        /\ pc' = [pc EXCEPT ![th] = "save"]
        /\ frame' = [frame EXCEPT ![th] =
                [NoFrame EXCEPT !.view = IF resp' = 403 THEN "blocked" ELSE "facilitator"]]
        /\ UNCHANGED <<disk, LOCK, tmp, write_failed>>

\* The views that only read: index (lines 198-200) and teams (lines 205-208).
ReadViews == {"index", "teams"}

ReadBody ==
    \E th \in Threads :
        /\ pc[th] = "locked"
        /\ \E view \in ReadViews :
            /\ Leave(th, "end", view)
            /\ last' = FacilitatorRequest(view)
        /\ resp' = 200
        /\ nreq' = nreq + 1
        /\ UNCHANGED <<ADMIN_TOKEN, state, disk, LOCK, tmp, write_failed>>

\* The two files save_state touches.
StateFile == "state.json"
\* A temporary path that is the state file itself.
TmpFileInPlace == StateFile
\* Line 114: STATE_FILE + ".tmp"
TmpFile == "state.json.tmp"

\* A snapshot file holds the three keys to_json gives.
IsCompleteSnapshot(c) == DOMAIN c = {"teams", "questions", "rnd"}

\* What the file holds while json.dump is still writing: a cut-off text.
Partial(c) == [teams |-> c.teams]

\* The file at the path gets the content.
WriteFile(path, c) ==
    IF path = StateFile THEN disk' = c /\ UNCHANGED tmp
    ELSE tmp' = Some(c) /\ UNCHANGED disk

\* os.replace(src, dst), dst being STATE_FILE.
ReplaceFile(src) ==
    IF src = StateFile THEN UNCHANGED <<disk, tmp>>
    ELSE disk' = Val(tmp) /\ tmp' = None

\* save_state, line 115: open(tmp, "w") and the first writes of json.dump.
SaveOpen ==
    \E th \in Threads :
        /\ pc[th] = "save"
        /\ WriteFile(TmpFile, Partial(to_json(RootState)))
        /\ pc' = [pc EXCEPT ![th] = "dump"]
        /\ UNCHANGED <<ADMIN_TOKEN, state, last, resp, nreq, LOCK, frame, write_failed>>

\* save_state, line 116: json.dump ends and the file is closed.
SaveDump ==
    \E th \in Threads :
        /\ pc[th] = "dump"
        /\ WriteFile(TmpFile, to_json(RootState))
        /\ pc' = [pc EXCEPT ![th] = "replace"]
        /\ UNCHANGED <<ADMIN_TOKEN, state, last, resp, nreq, LOCK, frame, write_failed>>

\* save_state, line 117: os.replace(tmp, STATE_FILE); then the rest of the
\* block (for the facilitator the view, lines 315-335).
SaveReplace ==
    \E th \in Threads :
        /\ pc[th] = "replace"
        /\ ReplaceFile(TmpFile)
        /\ write_failed' = FALSE
        /\ pc' = [pc EXCEPT ![th] = "leave"]
        /\ frame' = [frame EXCEPT ![th].exit = "end"]
        /\ UNCHANGED <<ADMIN_TOKEN, state, last, resp, nreq, LOCK>>

\* save_state raises (the open, a write or the replace fails): the exception
\* leaves the with-block and the request ends as an internal error.
SaveRaises ==
    \E th \in Threads :
        /\ pc[th] \in {"save", "dump", "replace"}
        /\ Leave(th, "error", "")
        /\ resp' = 500
        /\ write_failed' = TRUE
        /\ UNCHANGED <<ADMIN_TOKEN, state, disk, last, nreq, LOCK, tmp>>

\* The views whose template is handed objects of the Round State itself:
\* teams.html gets st.rnd.scores, facilitator.html gets st.rnd.  The
\* templates render what they are handed.
TemplateReadsRoundState(view) == view \in {"teams", "facilitator"}

\* The end of the with-block: the lock is released, then the handler renders
\* its template or answers at once (redirect, 403, error).
Release ==
    \E th \in Threads :
        /\ pc[th] = "leave"
        /\ LOCK' = with_exit(frame[th].exit)
        /\ IF frame[th].exit = "end" /\ frame[th].view \in ReadViews \cup {"facilitator"}
           THEN /\ pc' = [pc EXCEPT ![th] = "render"]
                /\ frame' = [frame EXCEPT ![th] = [NoFrame EXCEPT !.view = frame[th].view]]
           ELSE /\ pc' = [pc EXCEPT ![th] = "done"]
                /\ frame' = [frame EXCEPT ![th] = NoFrame]
        /\ UNCHANGED <<ADMIN_TOKEN, state, disk, last, resp, nreq, tmp, write_failed>>

\* render_template(...), lines 201, 209, 339: outside the with-block.
Render ==
    \E th \in Threads :
        /\ pc[th] = "render"
        /\ pc' = [pc EXCEPT ![th] = "done"]
        /\ frame' = [frame EXCEPT ![th] = NoFrame]
        /\ UNCHANGED <<ADMIN_TOKEN, state, disk, last, resp, nreq, LOCK, tmp,
                       write_failed>>

\* The process dies with requests in flight, or with a failed write behind
\* it, and is started again: main() takes a new LOCK and load_state() reads
\* STATE_FILE, which exists.  The temporary file stays as it was.
Crash ==
    /\ write_failed \/ \E th \in Threads : pc[th] \notin {"idle", "done"}
    /\ LOCK' = None
    /\ pc' = [th \in Threads |-> IF pc[th] = "idle" THEN "idle" ELSE "done"]
    /\ frame' = [th \in Threads |-> NoFrame]
    /\ write_failed' = FALSE
    /\ resp' = 0
    /\ IF IsCompleteSnapshot(disk) THEN
            LET st == from_json(disk) IN
            /\ questions' = st.questions
            /\ qidx' = st.rnd.qidx
            /\ revealed' = st.rnd.revealed
            /\ neg_mark' = st.rnd.neg_mark
            /\ timer_secs' = st.rnd.timer_secs
            /\ deadline' = st.rnd.deadline
            /\ submissions' = st.rnd.submissions
            /\ scores' = st.rnd.scores
            /\ last' = FacilitatorRequest("restart")
       ELSE
            /\ UNCHANGED state
            /\ last' = FacilitatorRequest("load_error")
    /\ UNCHANGED <<ADMIN_TOKEN, disk, tmp, nreq>>

NextThreads ==
    \/ Acquire
    \/ SubmitCheck
    \/ SubmitStore
    \/ FacilitatorBody
    \/ ReadBody
    \/ SaveOpen
    \/ SaveDump
    \/ SaveReplace
    \/ SaveRaises
    \/ Release
    \/ Render
    \/ Crash

SpecThreads == Init /\ [][NextThreads]_vars

---------------------------------------------------------------------------
(* Properties. *)

\* This step handles a request of the given kind.
Handles(op) == last'.op = op /\ nreq' = nreq + 1

\* The question the round is on, when there is one.
HasQuestion == ~IsNone(current_question(questions, qidx))
Question == Val(current_question(questions, qidx))

\* The answer a team holds at the current slot (None when it holds none).
Stored(t) == DictGet(submissions[t], qidx)

\* A blank answer: no chosen index (single), an empty selection (multi), an
\* empty text (short).
IsBlank(q, ans) ==
    CASE QKind(q) = "single" -> ans.choice = None
      [] QKind(q) = "multi" -> ans.choices \in {None, Some(<<>>)}
      [] QKind(q) = "short" -> ans.text \in {None, Some(<<>>)}

\* C1: a reveal that directly follows a reveal of the same question changes
\* no team's score.
C1_RevealIdempotent ==
    [][(last.op = "reveal" /\ HasQuestion /\ Handles("reveal")) => scores' = scores]_vars

\* C2: with a secret configured, a reset_round or reset_all request refused
\* by the authorization gate (answered 403) leaves qidx, revealed, neg_mark,
\* timer_secs, deadline, submissions and scores (and the questions) as they
\* were.
C2_RefusedResetChangesNothing ==
    [][(/\ Handles("reset_round") \/ Handles("reset_all")
        /\ ~IsNone(ADMIN_TOKEN)
        /\ resp' = 403)
            => UNCHANGED state]_vars

\* C3: a reveal with a current question adds 1.0 (single) or 2.0 (multi,
\* short) to every team whose stored answer the evaluator judges correct,
\* takes 0.5 from every team whose stored answer is incorrect and not blank
\* when negative marking is enabled, leaves every other score as it was, and
\* leaves a team with no stored answer without score change and without stamp.
C3_RevealScoring ==
    [][(Handles("reveal") /\ HasQuestion) =>
        \A t \in TeamIds :
            IF IsNone(Stored(t))
            THEN scores'[t] = scores[t] /\ submissions'[t] = submissions[t]
            ELSE IF eval_answer(Question, Val(Stored(t)))
            THEN scores'[t] = scores[t] + (IF QKind(Question) = "single" THEN 2 ELSE 4)
            ELSE IF neg_mark' /\ ~IsBlank(Question, Val(Stored(t)))
            THEN scores'[t] = scores[t] - 1
            ELSE scores'[t] = scores[t]]_vars

\* C3's case: a single question with canonical index 1 and negative marking
\* on, revealed after alpha chose 1 and bravo chose 0: alpha has 1.0 and
\* bravo -0.5.
C3_Witness ==
    /\ last.op = "reveal" /\ HasQuestion /\ QKind(Question) = "single" /\ neg_mark
    /\ Stored("alpha") = Some([NewAnswer EXCEPT !.choice = Some(1), !.correct = Some(TRUE)])
    /\ Stored("bravo") = Some([NewAnswer EXCEPT !.choice = Some(0), !.correct = Some(FALSE)])
    /\ scores["alpha"] = 2 /\ scores["bravo"] = 0 - 1

\* C4: with negative marking enabled, a reveal never lowers the score of a
\* team whose stored answer is blank or who has no stored answer.
C4_BlankNeverPenalized ==
    [][(Handles("reveal") /\ neg_mark') =>
        \A t \in TeamIds :
            (IsNone(Stored(t)) \/ (HasQuestion /\ IsBlank(Question, Val(Stored(t)))))
                => scores'[t] >= scores[t]]_vars

\* C4's case: negative marking is on and a multi question was revealed over
\* a stored empty selection, which is stamped incorrect and costs nothing.
C4_Witness ==
    /\ last.op = "reveal" /\ neg_mark /\ revealed /\ QKind(Question) = "multi"
    /\ \E t \in TeamIds :
        /\ Stored(t) = Some([NewAnswer EXCEPT !.choices = Some(<<>>), !.correct = Some(FALSE)])
        /\ scores[t] = 0

\* C5: a team holds at most one answer per slot, and after an accepted submit
\* the one answer it holds at the slot is the submitted one, unstamped.
C5_SubmitReplaces ==
    /\ \A t \in TeamIds : \A e1, e2 \in submissions[t] : e1.k = e2.k => e1 = e2
    /\ (last.op = "submit" /\ ~IsNone(last.ans)) =>
        /\ Stored(last.team) = last.ans
        /\ Val(last.ans).correct = None
        /\ Cardinality({e \in submissions[last.team] : e.k = qidx}) = 1

\* C5's case: the accepted submit replaced a different, unstamped answer the
\* team had submitted for the slot before.
C5_Witness ==
    /\ last.op = "submit" /\ ~IsNone(last.ans)
    /\ ~IsNone(last.had) /\ Val(last.had).correct = None
    /\ last.had # last.ans
    /\ Stored(last.team) = last.ans

\* C6: a submit of a known team while the round is revealed is answered with
\* the ordinary redirect and changes nothing, and as long as the round stays
\* revealed no stored answer is replaced.
C6_LateSubmitIgnored ==
    [][/\ (Handles("submit") /\ revealed /\ last'.team \in TeamIds)
            => (resp' = 302 /\ UNCHANGED <<state, disk>>)
       /\ (revealed /\ revealed') => submissions' = submissions]_vars

\* C6's case: a team that holds an answer at the revealed slot submitted
\* again and was redirected, nothing stored.
C6_Witness ==
    /\ last.op = "submit" /\ last.team \in TeamIds /\ revealed /\ resp = 302
    /\ IsNone(last.ans) /\ ~IsNone(last.had)
    /\ Stored(last.team) = last.had

\* max(0, min(n - 1, x))
Clamp(x, n) == Max(0, Min(n - 1, x))

\* C7: with N >= 1 questions qidx is always within 0..N-1, next and prev move
\* it by +1 and -1 clamped to that range, and both are answered normally and
\* leave revealed false and the deadline cleared.
C7_QidxClamped ==
    /\ [](Len(questions) >= 1 => (qidx >= 0 /\ qidx <= Len(questions) - 1))
    /\ [][/\ Handles("next") =>
                /\ Len(questions) >= 1 => qidx' = Clamp(qidx + 1, Len(questions))
                /\ revealed' = FALSE /\ deadline' = None /\ resp' = 200
          /\ Handles("prev") =>
                /\ Len(questions) >= 1 => qidx' = Clamp(qidx - 1, Len(questions))
                /\ revealed' = FALSE /\ deadline' = None /\ resp' = 200]_vars

\* C7's case: next was handled on the last question of a bank and qidx
\* stayed on it.
C7_Witness ==
    /\ last.op = "next" /\ Len(questions) = 1 /\ qidx = 0
    /\ revealed = FALSE /\ deadline = None

\* The number of places of s that hold x.
Count(s, x) == Cardinality({i \in 1..Len(s) : s[i] = x})

IsPermutation(a, b) ==
    /\ Len(a) = Len(b)
    /\ \A x \in Range(a) \cup Range(b) : Count(a, x) = Count(b, x)

\* C8: a shuffle leaves every team without submissions, qidx at 0, revealed
\* false, no deadline, every score as it was and the questions a permutation
\* of what they were.
C8_ShuffleEffect ==
    [][Handles("shuffle") =>
        /\ \A t \in TeamIds : submissions'[t] = {}
        /\ qidx' = 0 /\ revealed' = FALSE /\ deadline' = None
        /\ scores' = scores
        /\ IsPermutation(questions', questions)]_vars

\* C8's case: a shuffle reordered the bank after a reveal had scored a
\* submission.
C8_Witness ==
    /\ last.op = "shuffle"
    /\ \E t \in TeamIds : scores[t] # 0
    /\ Len(questions) = 2 /\ FileOrder(questions[1]) > FileOrder(questions[2])
    /\ \A t \in TeamIds : submissions[t] = {}

\* C9: reading back the snapshot of the state gives the state, slot indices
\* as integers.
C9_SnapshotRoundTrip ==
    /\ from_json(to_json(RootState)) = RootState
    /\ \A t \in TeamIds : \A e \in from_json(to_json(RootState)).rnd.submissions[t] :
            e.k \in Int

\* C9's case: a state with an answer stamped incorrect, a negative score and
\* an armed deadline.
C9_Witness ==
    /\ ~IsNone(deadline)
    /\ \E t \in TeamIds :
        /\ scores[t] < 0
        /\ \E e \in submissions[t] : e.v.correct = Some(FALSE)

\* The leaderboard of the state.
Leaderboard == board(TeamOrder, submissions, scores)

\* C10: the leaderboard has one row per team, by descending points and, for
\* equal points, ascending name, whatever the order the teams are iterated in.
C10_BoardDeterministic ==
    /\ Len(Leaderboard) = Cardinality(TeamIds)
    /\ {Leaderboard[i].team : i \in 1..Len(Leaderboard)} = TeamIds
    /\ \A i, j \in 1..Len(Leaderboard) : i < j =>
            \/ Leaderboard[i].points > Leaderboard[j].points
            \/ /\ Leaderboard[i].points = Leaderboard[j].points
               /\ NameRank(TeamName(Leaderboard[i].team)) < NameRank(TeamName(Leaderboard[j].team))
    /\ \A order \in Shuffles(TeamOrder) : board(order, submissions, scores) = Leaderboard

\* C10's case: two teams tied on a score a reveal gave them, the one whose
\* name sorts first on top.
C10_Witness ==
    /\ scores["alpha"] = scores["bravo"] /\ scores["alpha"] > 0
    /\ Leaderboard[1].team = "alpha" /\ Leaderboard[2].team = "bravo"

\* C11: no submit ends in an exception (an internal error, status 500),
\* whatever the form holds: a malformed answer is accepted and recorded.
C11_MalformedSubmitNeverRaises == last.op = "submit" => resp # 500

\* C12: a reset_round that passes the authorization gate empties every team's
\* submissions at every slot, hides the reveal and drops the deadline, and
\* leaves qidx and every score as they were.
C12_ResetRoundEffect ==
    [][(Handles("reset_round") /\ resp' = 200) =>
            /\ \A t \in TeamIds : submissions'[t] = {}
            /\ revealed' = FALSE
            /\ deadline' = None
            /\ qidx' = qidx
            /\ scores' = scores]_vars

\* C12's case: an authorized reset_round cleared a revealed round in which a
\* team had scored.
C12_Witness ==
    /\ last.op = "reset_round" /\ resp = 200
    /\ \E t \in TeamIds : scores[t] # 0
    /\ \A t \in TeamIds : submissions[t] = {}
    /\ ~revealed

\* An entry of a team's submissions whose flag is stamped.
IsStamped(e) == e.v.correct # None

C18_NoDecreaseWhileFlagOff ==
    [][/\ \A t \in TeamIds : scores'[t] < 0 => neg_mark'
       /\ neg_mark => neg_mark'
       /\ ~neg_mark' => \A t \in TeamIds : scores'[t] >= scores[t]]_vars

\* C18, amended: a score is negative only with the flag on, the flag once on
\* stays on, and the only step that lowers a score while the flag is off is
\* an authorized reset_all, which returns every score to 0.
C18_NoPenaltyWhileFlagOff ==
    [][/\ \A t \in TeamIds : scores'[t] < 0 => neg_mark'
       /\ neg_mark => neg_mark'
       /\ ~neg_mark' =>
            IF Handles("reset_all") /\ resp' = 200
            THEN \A t \in TeamIds : scores'[t] = 0
            ELSE \A t \in TeamIds : scores'[t] >= scores[t]]_vars

\* C18's case: with the flag off, a reveal left a team that answered wrong at
\* 0 and rewarded a team that answered right.
C18_Witness ==
    /\ last.op = "reveal" /\ ~neg_mark
    /\ \E t, u \in TeamIds :
        /\ scores[t] = 0 /\ scores[u] > 0
        /\ ~IsNone(Stored(t)) /\ Val(Stored(t)).correct = Some(FALSE)
        /\ Attempted(Question, Val(Stored(t)))

\* C20: every stored answer sits at a slot of the current question sequence,
\* holds no field of another kind than the question at that slot, and, when
\* stamped, carries the Evaluator's result against that question.
C20_StoredAnswersFitQuestions ==
    \A t \in TeamIds : \A e \in submissions[t] :
        /\ e.k \in 0..(Len(questions) - 1)
        /\ LET q == questions[e.k + 1] IN
            /\ QKind(q) = "single" => e.v.choices = None /\ e.v.text = None
            /\ QKind(q) = "multi" => e.v.choice = None /\ e.v.text = None
            /\ QKind(q) = "short" => e.v.choice = None /\ e.v.choices = None
            /\ IsStamped(e) => Val(e.v.correct) = eval_answer(q, e.v)

\* C20's case: the round moved on from a slot that holds an answer stamped
\* correct, to a question of another kind.
C20_Witness ==
    /\ Len(questions) = 2 /\ qidx = 1
    /\ QKind(questions[1]) # QKind(questions[2])
    /\ \E t \in TeamIds : \E e \in submissions[t] : e.k = 0 /\ e.v.correct = Some(TRUE)

\* The thread is inside its with-block.
InSection(th) == pc[th] \in InBlock

\* The thread is inside its with-block with its body still to run: the write
\* of a submit or of a facilitator action lies ahead of it.
AboutToMutate(th) == pc[th] \in {"locked", "store"}

\* The thread is rendering a template that reads the Round State.
RendersRoundState(th) == pc[th] = "render" /\ TemplateReadsRoundState(frame[th].view)

\* C13: at most one handler at a time is inside a with-block, and no handler
\* reads the Round State while another handler is about to write it.
C13_MutualExclusion ==
    \A a, b \in Threads : a # b =>
        /\ ~(InSection(a) /\ InSection(b))
        /\ ~(RendersRoundState(a) /\ AboutToMutate(b))

\* C14: the lock is held only by a thread that is inside its with-block:
\* however a handler left the block (its end, a return, abort, an exception
\* of the parsing or of save_state), the lock is free again.
C14_LockReleasedOnEveryExit ==
    /\ \A th \in Threads : ~InSection(th) => LOCK # Some(th)
    /\ ~IsNone(LOCK) => InSection(Val(LOCK))

\* C14's case: a request ended in an exception inside the with-block, and
\* the next request has the lock.
C14_Witness ==
    /\ pc["t1"] = "done" /\ resp = 500
    /\ LOCK = Some("t2") /\ pc["t2"] = "locked"

\* C15: whenever no handler holds the lock, the snapshot file holds the
\* in-memory state.
C15_SnapshotEqualsMemory == IsNone(LOCK) => disk = to_json(RootState)

\* What holds of the snapshot in every state: a handler whose save_state
\* returned leaves the with-block with the file holding the in-memory state;
\* whenever no handler holds the lock and no save_state has raised since the
\* last one that returned, the file holds the in-memory state; and a restart
\* after a crash starts from the state the file holds.
SnapshotEqualsMemoryUnlessWriteFailed ==
    /\ \A th \in Threads :
        (pc[th] = "leave" /\ frame[th].exit = "end"
            /\ frame[th].view \in {"redirect", "facilitator", "blocked"})
        => disk = to_json(RootState)
    /\ (IsNone(LOCK) /\ ~write_failed) => disk = to_json(RootState)
    /\ (last.op = "restart" /\ \A th \in Threads : pc[th] \in {"idle", "done"})
        => RootState = from_json(disk)

\* C16: at every step the state file holds a complete snapshot, the one it
\* held before or the one of the state being saved, and a restart after a
\* crash reads it.
C16_SnapshotWriteAtomic ==
    [][/\ IsCompleteSnapshot(disk')
       /\ disk' \in {disk, to_json(RootState)}
       /\ Crash => (last'.op = "restart" /\ RootState' = from_json(disk))]_vars

\* C16's case: the process crashed while json.dump was writing; the restart
\* found the cut-off temporary file and read the previous snapshot.
C16_Witness ==
    /\ last.op = "restart"
    /\ ~IsNone(tmp) /\ ~IsCompleteSnapshot(Val(tmp))
    /\ IsCompleteSnapshot(disk) /\ RootState = from_json(disk)

\* C19: whenever the question is revealed, every answer stored at the
\* current slot carries a stamped flag, under every interleaving of the
\* request threads.
C19_RevealedAnswersStamped ==
    revealed => \A t \in TeamIds : \A e \in submissions[t] : e.k = qidx => IsStamped(e)

\* C19's case: a submit got the lock first and stored its answer, the reveal
\* of the other thread came after it and stamped the answer.
C19_Witness ==
    /\ pc["t1"] = "done" /\ InSection("t2")
    /\ last.op = "reveal" /\ revealed
    /\ \E t \in TeamIds : ~IsNone(Stored(t)) /\ IsStamped([k |-> qidx, v |-> Val(Stored(t))])

====
